---- MODULE Spec2Model ----
(***************************************************************************)
(* String Analyzer Service: the analyzer (analyze_string), the record      *)
(* store (SQLite table "strings") and the request handlers of              *)
(* src/string_analyzer/main.py, with the second analyzer of                *)
(* src/string_analyzer/string_utils.py.                                    *)
(*                                                                         *)
(* A string is a sequence of characters; a character is named by a TLA+    *)
(* string ("a", " ", "KELVIN" for U+212A, ...).                            *)
(***************************************************************************)
EXTENDS Integers, Sequences, FiniteSets, TLC

VARIABLES
    store,      \* rows of table strings, in rowid (insertion) order
    now,        \* the UTC clock read by datetime.utcnow()
    pc,         \* per client: "idle", or "insert" between SELECT and INSERT of create_string
    pending,    \* per client: the analyze_string result of the create in flight
    resp,       \* per client: the response of its last completed request
    query,      \* the "query" argument of the natural-language requests
    params,     \* the query parameters of the GET /strings requests
    input,      \* the string handed to the analyzer
    result      \* what the analyzer returned for input

vars == <<store, now, pc, pending, resp, query, params, input, result>>

None == [kind |-> "none"]

-----------------------------------------------------------------------------
(* Bounds *)

MaxLen == 3        \* longest analyzer input
MaxTime == 1       \* last clock value
MaxFrags == 2      \* most fragments a natural-language query is built from

-----------------------------------------------------------------------------
(* Characters: str.lower(), the regex classes [a-zA-Z0-9], \d, \w, and       *)
(* str.split()'s whitespace.                                                 *)

UpperAscii ==
    <<"A","B","C","D","E","F","G","H","I","J","K","L","M",
      "N","O","P","Q","R","S","T","U","V","W","X","Y","Z">>

LowerAscii ==
    <<"a","b","c","d","e","f","g","h","i","j","k","l","m",
      "n","o","p","q","r","s","t","u","v","w","x","y","z">>

Digits == <<"0","1","2","3","4","5","6","7","8","9">>

\* Non-ASCII code points of the model: U+212A KELVIN SIGN, U+0130 LATIN
\* CAPITAL I WITH DOT ABOVE, U+0307 COMBINING DOT ABOVE, U+00C9 / U+00E9.
Others == <<" ", "\t", "!", "_", ".", "+", "-", "KELVIN", "I_DOT", "COMB_DOT", "E_ACUTE_UP", "e_acute">>

Charset == UpperAscii \o LowerAscii \o Digits \o Others

Range(s) == {s[i] : i \in 1..Len(s)}

IndexIn(c, s) == CHOOSE i \in 1..Len(s) : s[i] = c

\* str.lower() on one character: a string, since U+0130 lowers to two code points.
LowerChar(c) ==
    IF c \in Range(UpperAscii) THEN <<LowerAscii[IndexIn(c, UpperAscii)]>>
    ELSE IF c = "KELVIN" THEN <<"k">>
    ELSE IF c = "I_DOT" THEN <<"i", "COMB_DOT">>
    ELSE IF c = "E_ACUTE_UP" THEN <<"e_acute">>
    ELSE <<c>>

RECURSIVE Lower(_)
Lower(s) == IF s = <<>> THEN <<>> ELSE LowerChar(Head(s)) \o Lower(Tail(s))

\* the class [a-zA-Z0-9]
IsAsciiAlnum(c) == c \in Range(UpperAscii) \cup Range(LowerAscii) \cup Range(Digits)

\* str.split() / str.strip() whitespace
IsSpace(c) == c \in {" ", "\t"}

Reverse(s) == [i \in 1..Len(s) |-> s[Len(s) + 1 - i]]

-----------------------------------------------------------------------------
(* analyze_string *)

\* variant of Cleaned that does not lower-case
CleanedNoLower(s) == SelectSeq(s, IsAsciiAlnum)

\* re.sub(r'[^a-zA-Z0-9]', '', input_string.lower())
Cleaned(s) == SelectSeq(Lower(s), IsAsciiAlnum)

\* main.py: cleaned == cleaned[::-1] if cleaned else True
IsPalindromeMain(s) ==
    LET cleaned == Cleaned(s)
    IN  IF cleaned # <<>> THEN cleaned = Reverse(cleaned) ELSE TRUE

\* string_utils.py: cleaned == cleaned[::-1]
IsPalindromeUtils(s) ==
    LET cleaned == Cleaned(s)
    IN  cleaned = Reverse(cleaned)

\* len(input_string.split()): the maximal runs of non-whitespace
WordCount(s) ==
    Cardinality({i \in 1..Len(s) : ~IsSpace(s[i]) /\ (i = 1 \/ IsSpace(s[i - 1]))})

\* len(set(input_string))
UniqueCharacters(s) == Cardinality(Range(s))

CharacterFrequencyMap(s) ==
    [c \in Range(s) |-> Cardinality({i \in 1..Len(s) : s[i] = c})]

\* hashlib.sha256(input_string.encode()).hexdigest(): a digest with no
\* collisions on the strings of the model, computed from the code points.
HashBase == Len(Charset) + 1

RECURSIVE Digest(_, _)
Digest(h, s) ==
    IF s = <<>> THEN h ELSE Digest(h * HashBase + IndexIn(Head(s), Charset), Tail(s))

Sha256Hex(s) == Digest(0, s)

Properties(s, pal) ==
    [length                  |-> Len(s),
     is_palindrome           |-> pal,
     unique_characters       |-> UniqueCharacters(s),
     word_count              |-> WordCount(s),
     sha256_hash             |-> Sha256Hex(s),
     character_frequency_map |-> CharacterFrequencyMap(s)]

\* main.analyze_string, with created_at the clock value t
analyze_string(s, t) ==
    [id         |-> Sha256Hex(s),
     value      |-> s,
     properties |-> Properties(s, IsPalindromeMain(s)),
     created_at |-> t]

\* string_utils.analyze_string
analyze_string_utils(s, t) ==
    [id         |-> Sha256Hex(s),
     value      |-> s,
     properties |-> Properties(s, IsPalindromeUtils(s)),
     created_at |-> t]

-----------------------------------------------------------------------------
(* Optional values: a missing request argument, a key a dict does not hold, *)
(* a fetchone() that found nothing.                                         *)

Absent == [has |-> FALSE]
Some(v) == [has |-> TRUE, val |-> v]

-----------------------------------------------------------------------------
(* The table strings (init_db) and the statements the handlers run on it.   *)
(* A row is (id, value, data, created_at); data holds json.dumps of the     *)
(* properties, which row_to_obj reads back with json.loads.                 *)

Row(res) ==
    [id         |-> res.id,
     value      |-> res.value,
     data       |-> res.properties,
     created_at |-> res.created_at]

row_to_obj(row) ==
    [id         |-> row.id,
     value      |-> row.value,
     properties |-> row.data,
     created_at |-> row.created_at]

\* SELECT * FROM strings WHERE id=? ; fetchone()
SelectById(db, id) ==
    LET hits == SelectSeq(db, LAMBDA r : r.id = id)
    IN  IF hits = <<>> THEN Absent ELSE Some(Head(hits))

\* SELECT * FROM strings WHERE value=? ; fetchone()
SelectByValue(db, v) ==
    LET hits == SelectSeq(db, LAMBDA r : r.value = v)
    IN  IF hits = <<>> THEN Absent ELSE Some(Head(hits))

\* variant of ConstraintViolations for a table declared without constraints
NoConstraintViolations(db, row) == {}

\* id TEXT PRIMARY KEY, value TEXT UNIQUE: the constraints an INSERT of row
\* violates, each with the diagnostic sqlite3.IntegrityError carries.
ConstraintViolations(db, row) ==
    {"UNIQUE constraint failed: strings.id" : r \in {x \in Range(db) : x.id = row.id}}
    \cup
    {"UNIQUE constraint failed: strings.value" : r \in {x \in Range(db) : x.value = row.value}}

\* variant of DeleteByValue whose statement matches no row
DeleteNothing(db, v) == db

\* DELETE FROM strings WHERE value=?
DeleteByValue(db, v) == SelectSeq(db, LAMBDA r : r.value # v)

StoredValues(db) == {r.value : r \in Range(db)}

-----------------------------------------------------------------------------
(* Responses: (body, status) of a handler, with the request it answers and  *)
(* the handler's local rows (what its SELECT * fetched; Absent when it ran  *)
(* none).                                                                   *)

Response(op, arg, status, body, rows) ==
    [op |-> op, arg |-> arg, status |-> status, body |-> body, rows |-> rows]

ErrorBody(msg) == [error |-> msg]

\* return '', 204: an empty body
NoBody == [text |-> ""]

\* a client that has sent nothing yet
NoResponse == Response("none", <<>>, 0, NoBody, Absent)

\* except Exception as e: return jsonify({"error": str(e)}), 500
Failure(op, arg, e) == Response(op, arg, 500, ErrorBody(e), Absent)

-----------------------------------------------------------------------------
(* POST /strings: create_string. The handler runs two statements, SELECT    *)
(* and INSERT; other requests' statements may run between them.             *)

\* request.get_json(): no 'value' key, a value that is no string, or a string
MissingBody == [kind |-> "missing"]
NumberBody == [kind |-> "number"]
StringBody(v) == [kind |-> "string", value |-> v]

\* "a", "Ab", "b b"
RequestValues == {<<"a">>, <<"A", "b">>, <<"b", " ", "b">>}

Bodies == {MissingBody, NumberBody} \cup {StringBody(v) : v \in RequestValues}

\* variant of ExistingRow for a handler that skips the uniqueness check
NeverFound(db, id) == Absent

\* lines 87-88: the uniqueness SELECT
ExistingRow(db, id) == SelectById(db, id)

\* lines 75-89: validation, analysis, the uniqueness check

CreateBegin(c, body) ==
    /\ pc[c] = "idle"
    /\ IF body.kind = "missing"
       THEN /\ resp' = [resp EXCEPT ![c] =
                   Response("create", body, 400, ErrorBody("Missing 'value' field"), Absent)]
            /\ UNCHANGED <<pc, pending>>
       ELSE IF body.kind # "string"
       THEN /\ resp' = [resp EXCEPT ![c] =
                   Response("create", body, 422, ErrorBody("'value' must be a string"), Absent)]
            /\ UNCHANGED <<pc, pending>>
       ELSE LET res == analyze_string(body.value, now)
            IN  IF ExistingRow(store, res.id).has
                THEN /\ resp' = [resp EXCEPT ![c] =
                            Response("create", body, 409, ErrorBody("String already exists"), Absent)]
                     /\ UNCHANGED <<pc, pending>>
                ELSE /\ pc' = [pc EXCEPT ![c] = "insert"]
                     /\ pending' = [pending EXCEPT ![c] = res]
                     /\ UNCHANGED resp
    /\ UNCHANGED <<store, now, query, params, input, result>>

\* lines 91-98: INSERT and commit, or the IntegrityError caught at line 97
CreateInsert(c) ==
    /\ pc[c] = "insert"
    /\ LET res == pending[c]
           body == StringBody(res.value)
           broken == ConstraintViolations(store, Row(res))
       IN  IF broken = {}
           THEN /\ store' = Append(store, Row(res))
                /\ resp' = [resp EXCEPT ![c] = Response("create", body, 201, res, Absent)]
           ELSE /\ \E e \in broken : resp' = [resp EXCEPT ![c] = Failure("create", body, e)]
                /\ UNCHANGED store
    /\ pc' = [pc EXCEPT ![c] = "idle"]
    /\ pending' = [pending EXCEPT ![c] = None]
    /\ UNCHANGED <<now, query, params, input, result>>

-----------------------------------------------------------------------------
(* GET /strings/<value>: get_string, and DELETE /strings/<value>:           *)
(* delete_string. One statement each.                                       *)

GetString(c, v) ==
    /\ pc[c] = "idle"
    /\ LET row == SelectByValue(store, v)
       IN  resp' = [resp EXCEPT ![c] =
               IF ~row.has
               THEN Response("get", v, 404, ErrorBody("String not found"), Absent)
               ELSE Response("get", v, 200, row_to_obj(row.val), Absent)]
    /\ UNCHANGED <<store, now, pc, pending, query, params, input, result>>

DeleteString(c, v) ==
    /\ pc[c] = "idle"
    /\ LET after == DeleteByValue(store, v)
           deleted == Len(store) - Len(after)     \* cursor.rowcount
       IN  /\ store' = after
           /\ resp' = [resp EXCEPT ![c] =
                  IF deleted = 0
                  THEN Response("delete", v, 404, ErrorBody("String not found"), Absent)
                  ELSE Response("delete", v, 204, NoBody, Absent)]
    /\ UNCHANGED <<now, pc, pending, query, params, input, result>>

\* datetime.utcnow() advances
Tick ==
    /\ now < MaxTime
    /\ now' = now + 1
    /\ UNCHANGED <<store, pc, pending, resp, query, params, input, result>>

-----------------------------------------------------------------------------
(* Text helpers of the two filter handlers. *)

\* sub in s
Contains(sub, s) ==
    \E i \in 0..(Len(s) - Len(sub)) : SubSeq(s, i + 1, i + Len(sub)) = sub

\* str.strip()
RECURSIVE StripLeft(_)
StripLeft(s) == IF s # <<>> /\ IsSpace(Head(s)) THEN StripLeft(Tail(s)) ELSE s

Strip(s) == Reverse(StripLeft(Reverse(StripLeft(s))))

\* the decimal value of a string of digits
RECURSIVE DecimalValue(_, _)
DecimalValue(n, ds) ==
    IF ds = <<>> THEN n ELSE DecimalValue(10 * n + (IndexIn(Head(ds), Digits) - 1), Tail(ds))

IsDigit(c) == c \in Range(Digits)

\* the class \w on the characters of the model: letters, digits, underscore
IsWordChar(c) ==
    IsAsciiAlnum(c) \/ c \in {"_", "KELVIN", "I_DOT", "E_ACUTE_UP", "e_acute"}

\* variant of IntParse that reads a text int() rejects as 0
ZeroOnValueError(text) ==
    IF text # <<>> /\ \A i \in 1..Len(text) : IsDigit(text[i])
    THEN Some(DecimalValue(0, text)) ELSE Some(0)

\* int(text): Some(n), or Absent for ValueError. Whitespace around the
\* literal, one sign and single underscores between digits are accepted.
IntParse(text) ==
    LET t == Strip(text)
        signed == t # <<>> /\ Head(t) \in {"+", "-"}
        body == IF signed THEN Tail(t) ELSE t
        wellFormed ==
            /\ body # <<>>
            /\ \A i \in 1..Len(body) : IsDigit(body[i]) \/ body[i] = "_"
            /\ IsDigit(body[1]) /\ IsDigit(body[Len(body)])
            /\ \A i \in 1..(Len(body) - 1) : ~(body[i] = "_" /\ body[i + 1] = "_")
        magnitude == DecimalValue(0, SelectSeq(body, IsDigit))
    IN  IF ~wellFormed THEN Absent
        ELSE IF signed /\ Head(t) = "-" THEN Some(0 - magnitude)
        ELSE Some(magnitude)

-----------------------------------------------------------------------------
(* GET /strings: get_all_strings. params holds request.args.get(...) of the *)
(* five recognised parameters, each Absent or Some(text).                   *)

NoParams ==
    [is_palindrome |-> Absent, min_length |-> Absent, max_length |-> Absent,
     word_count |-> Absent, contains_character |-> Absent]

\* Python truthiness of an argument: given and not the empty string
Truthy(a) == a.has /\ a.val # <<>>

\* lines 144-147
PalindromeMismatch(d, a) ==
    a.has /\ d.properties.is_palindrome # (Lower(a.val) = <<"t", "r", "u", "e">>)

\* lines 149-154, 156-161, 163-168: a ValueError of int() is passed over
BelowMin(d, a) ==
    Truthy(a) /\ LET n == IntParse(a.val) IN n.has /\ d.properties.length < n.val

AboveMax(d, a) ==
    Truthy(a) /\ LET n == IntParse(a.val) IN n.has /\ d.properties.length > n.val

WordCountMismatch(d, a) ==
    Truthy(a) /\ LET n == IntParse(a.val) IN n.has /\ d.properties.word_count # n.val

\* lines 170-171
LacksText(d, a) == Truthy(a) /\ ~Contains(a.val, d.value)

\* the loop of lines 140-173 on one record: TRUE when it is appended
Kept(d, p) ==
    /\ ~PalindromeMismatch(d, p.is_palindrome)
    /\ ~BelowMin(d, p.min_length)
    /\ ~AboveMax(d, p.max_length)
    /\ ~WordCountMismatch(d, p.word_count)
    /\ ~LacksText(d, p.contains_character)

Objects(rows) == [i \in 1..Len(rows) |-> row_to_obj(rows[i])]

get_all_strings(rows, p) ==
    LET filtered == SelectSeq(Objects(rows), LAMBDA d : Kept(d, p))
    IN  Response("list", p, 200,
                 [data |-> filtered, count |-> Len(filtered), filters_applied |-> p],
                 Some(rows))

GetAllStrings(c) ==
    /\ pc[c] = "idle"
    /\ resp' = [resp EXCEPT ![c] = get_all_strings(store, params)]
    /\ UNCHANGED <<store, now, pc, pending, query, params, input, result>>

-----------------------------------------------------------------------------
(* GET /strings/filter-by-natural-language: natural_language_filter. *)

\* re.search(prefix + r"(\d+)", q): the group of the leftmost match, as int
SearchNumber(prefix, q) ==
    LET n == Len(prefix)
        starts == {i \in 1..(Len(q) - n) :
                      SubSeq(q, i, i + n - 1) = prefix /\ IsDigit(q[i + n])}
    IN  IF starts = {} THEN Absent
        ELSE LET i == CHOOSE k \in starts : \A m \in starts : k <= m
                 stop == CHOOSE e \in (i + n)..Len(q) :
                            /\ \A k \in (i + n)..e : IsDigit(q[k])
                            /\ e = Len(q) \/ ~IsDigit(q[e + 1])
             IN  Some(DecimalValue(0, SubSeq(q, i + n, stop)))

\* re.search(prefix + r"(\w)", q): the group of the leftmost match
SearchWordChar(prefix, q) ==
    LET n == Len(prefix)
        starts == {i \in 1..(Len(q) - n) :
                      SubSeq(q, i, i + n - 1) = prefix /\ IsWordChar(q[i + n])}
    IN  IF starts = {} THEN Absent
        ELSE LET i == CHOOSE k \in starts : \A m \in starts : k <= m
             IN  Some(<<q[i + n]>>)

T_palindromic == <<"p", "a", "l", "i", "n", "d", "r", "o", "m", "i", "c">>
T_palindrome == <<"p", "a", "l", "i", "n", "d", "r", "o", "m", "e">>
T_single_word == <<"s", "i", "n", "g", "l", "e", " ", "w", "o", "r", "d">>
T_longer_than == <<"l", "o", "n", "g", "e", "r", " ", "t", "h", "a", "n", " ">>
T_shorter_than == <<"s", "h", "o", "r", "t", "e", "r", " ", "t", "h", "a", "n", " ">>
T_containing_the_letter == <<"c", "o", "n", "t", "a", "i", "n", "i", "n", "g", " ", "t", "h", "e", " ", "l", "e", "t", "t", "e", "r", " ">>
T_containing == <<"c", "o", "n", "t", "a", "i", "n", "i", "n", "g", " ">>

\* variant of MinLengthOf that takes N itself as the minimum
MinSameAsN(q) == SearchNumber(T_longer_than, q)

\* lines 199-201: int(match.group(1)) + 1
MinLengthOf(q) ==
    LET m == SearchNumber(T_longer_than, q)
    IN  IF m.has THEN Some(m.val + 1) ELSE Absent

\* lines 203-205: int(match.group(1)) - 1
MaxLengthOf(q) ==
    LET m == SearchNumber(T_shorter_than, q)
    IN  IF m.has THEN Some(m.val - 1) ELSE Absent

\* lines 190-213: the filters dict, a key it does not hold being Absent
ParseFilters(q) ==
    [is_palindrome |->
        IF Contains(T_palindromic, q) \/ Contains(T_palindrome, q) THEN Some(TRUE) ELSE Absent,
     word_count |-> IF Contains(T_single_word, q) THEN Some(1) ELSE Absent,
     min_length |-> MinLengthOf(q),
     max_length |-> MaxLengthOf(q),
     contains_character |->
        LET m == SearchWordChar(T_containing_the_letter, q)
        IN  IF m.has THEN m ELSE SearchWordChar(T_containing, q)]

\* line 215: not filters
NoFilters(f) ==
    ~(f.is_palindrome.has \/ f.word_count.has \/ f.min_length.has
        \/ f.max_length.has \/ f.contains_character.has)

\* variant of Conflicting for a handler without the range check
NeverConflicting(f) == FALSE

\* line 219
Conflicting(f) ==
    f.min_length.has /\ f.max_length.has /\ f.min_length.val > f.max_length.val

\* lines 234-250 on one record
NLKept(d, f) ==
    /\ ~(f.is_palindrome.has /\ f.is_palindrome.val /\ ~d.properties.is_palindrome)
    /\ ~(f.word_count.has /\ d.properties.word_count # f.word_count.val)
    /\ ~(f.min_length.has /\ d.properties.length < f.min_length.val)
    /\ ~(f.max_length.has /\ d.properties.length > f.max_length.val)
    /\ ~(f.contains_character.has
            /\ ~Contains(Lower(f.contains_character.val), Lower(d.value)))

\* the handler on the raw query argument and the table
natural_language_filter(db, raw) ==
    LET q == Strip(Lower(raw))
        filters == ParseFilters(q)
    IN  IF NoFilters(filters)
        THEN Response("nl", raw, 400,
                      ErrorBody("Unable to parse natural language query"), Absent)
        ELSE IF Conflicting(filters)
        THEN Response("nl", raw, 422,
                      [error |-> "Query parsed but resulted in conflicting filters",
                       parsed_filters |-> filters], Absent)
        ELSE LET filtered == SelectSeq(Objects(db), LAMBDA d : NLKept(d, filters))
             IN  Response("nl", raw, 200,
                          [data |-> filtered, count |-> Len(filtered),
                           interpreted_query |->
                               [original |-> q, parsed_filters |-> filters]],
                          Some(db))

NaturalLanguageFilter(c) ==
    /\ pc[c] = "idle"
    /\ resp' = [resp EXCEPT ![c] = natural_language_filter(store, query)]
    /\ UNCHANGED <<store, now, pc, pending, query, params, input, result>>

-----------------------------------------------------------------------------
(* The analyzer on its own: every input up to MaxLen characters. *)

AnalyzeAlphabet == {"a", "A", "b", "1", " ", "!", "KELVIN", "k", "I_DOT"}

RECURSIVE StringsUpTo(_, _)
StringsUpTo(alphabet, n) ==
    IF n = 0 THEN {<<>>}
    ELSE LET shorter == StringsUpTo(alphabet, n - 1)
         IN  shorter \cup {Append(s, c) : s \in shorter, c \in alphabet}

Clients == {"c1", "c2"}

InitAnalyze ==
    /\ store = <<>>
    /\ now = 0
    /\ pc = [c \in Clients |-> "idle"]
    /\ pending = [c \in Clients |-> None]
    /\ resp = [c \in Clients |-> NoResponse]
    /\ query = <<>>
    /\ params = NoParams
    /\ input \in StringsUpTo(AnalyzeAlphabet, MaxLen)
    /\ result = None

AnalyzeMain ==
    /\ result' = [kind |-> "main", record |-> analyze_string(input, now)]
    /\ UNCHANGED <<store, now, pc, pending, resp, query, params, input>>

AnalyzeUtils ==
    /\ result' = [kind |-> "utils", record |-> analyze_string_utils(input, now)]
    /\ UNCHANGED <<store, now, pc, pending, resp, query, params, input>>

NextAnalyze == AnalyzeMain \/ AnalyzeUtils

SpecAnalyze == InitAnalyze /\ [][NextAnalyze]_vars

-----------------------------------------------------------------------------
(* The service: two clients whose requests interleave statement by          *)
(* statement.                                                               *)

InitService ==
    /\ store = <<>>
    /\ now = 0
    /\ pc = [c \in Clients |-> "idle"]
    /\ pending = [c \in Clients |-> None]
    /\ resp = [c \in Clients |-> NoResponse]
    /\ input = <<>>
    /\ result = None

\* "palindromic", "longer than 1"
ServiceQueries == {<<"p", "a", "l", "i", "n", "d", "r", "o", "m", "i", "c">>, <<"l", "o", "n", "g", "e", "r", " ", "t", "h", "a", "n", " ", "1">>}

Init ==
    /\ InitService
    /\ query \in ServiceQueries
    /\ params = NoParams

\* the values the interleaved requests name: "a", "Ab"
RacedValues == {<<"a">>, <<"A", "b">>}

RacedBodies == {MissingBody, NumberBody} \cup {StringBody(v) : v \in RacedValues}

Next ==
    \/ \E c \in Clients, body \in RacedBodies : CreateBegin(c, body)
    \/ \E c \in Clients : CreateInsert(c)
    \/ \E c \in Clients, v \in RacedValues : GetString(c, v)
    \/ \E c \in Clients, v \in RacedValues : DeleteString(c, v)
    \/ \E c \in Clients : GetAllStrings(c)
    \/ \E c \in Clients : NaturalLanguageFilter(c)

Spec == Init /\ [][Next]_vars

-----------------------------------------------------------------------------
(* One client: its requests run one after the other. *)

NextSeq ==
    \/ \E body \in Bodies : CreateBegin("c1", body)
    \/ CreateInsert("c1")
    \/ \E v \in RequestValues : GetString("c1", v)
    \/ \E v \in RequestValues : DeleteString("c1", v)
    \/ GetAllStrings("c1")
    \/ NaturalLanguageFilter("c1")
    \/ Tick

SpecSeq == Init /\ [][NextSeq]_vars

-----------------------------------------------------------------------------
(* GET /strings under every combination of parameter texts, on every table  *)
(* one client can build.                                                    *)

\* "True", "no"
PalindromeTexts == {Absent, Some(<<"T", "r", "u", "e">>), Some(<<"n", "o">>)}
\* "", "2", " 3", "x2", "1.5"
MinLengthTexts == {Absent, Some(<<>>), Some(<<"2">>), Some(<<" ", "3">>), Some(<<"x", "2">>), Some(<<"1", ".", "5">>)}
\* "2", "-1", "2x"
MaxLengthTexts == {Absent, Some(<<"2">>), Some(<<"-", "1">>), Some(<<"2", "x">>)}
\* "1", "1_", "one"
WordCountTexts == {Absent, Some(<<"1">>), Some(<<"1", "_">>), Some(<<"o", "n", "e">>)}
\* "a", "B", "b b"
ContainsTexts == {Absent, Some(<<"a">>), Some(<<"B">>), Some(<<"b", " ", "b">>)}

FilterParams ==
    [is_palindrome : PalindromeTexts, min_length : MinLengthTexts,
     max_length : MaxLengthTexts, word_count : WordCountTexts,
     contains_character : ContainsTexts]

InitFilter ==
    /\ InitService
    /\ query = <<>>
    /\ params \in FilterParams

NextFilter ==
    \/ \E v \in RequestValues : CreateBegin("c1", StringBody(v))
    \/ CreateInsert("c1")
    \/ GetAllStrings("c1")

SpecFilter == InitFilter /\ [][NextFilter]_vars

-----------------------------------------------------------------------------
(* The natural-language filter under every query of up to MaxFrags          *)
(* fragments, on every table one client can build.                          *)

QueryFragments ==
    {<<"l", "o", "n", "g", "e", "r", " ", "t", "h", "a", "n", " ", "1", " ">>, <<"L", "O", "N", "G", "E", "R", " ", "T", "H", "A", "N", " ", "0", "2">>, <<"s", "h", "o", "r", "t", "e", "r", " ", "t", "h", "a", "n", " ", "3", " ">>, <<"s", "h", "o", "r", "t", "e", "r", " ", "t", "h", "a", "n", " ", "0">>,
     <<"p", "a", "l", "i", "n", "d", "r", "o", "m", "i", "c", " ">>, <<"S", "i", "n", "g", "l", "e", " ", "W", "o", "r", "d", " ">>, <<"c", "o", "n", "t", "a", "i", "n", "i", "n", "g", " ", "t", "h", "e", " ", "l", "e", "t", "t", "e", "r", " ", "A">>, <<"c", "o", "n", "t", "a", "i", "n", "i", "n", "g", " ", "b", " ">>,
     <<"s", "t", "r", "i", "n", "g", "s", " ">>, <<" ">>}

RECURSIVE QueriesUpTo(_)
QueriesUpTo(n) ==
    IF n = 0 THEN {<<>>}
    ELSE LET shorter == QueriesUpTo(n - 1)
         IN  shorter \cup {q \o f : q \in shorter, f \in QueryFragments}

InitNL ==
    /\ InitService
    /\ query \in QueriesUpTo(MaxFrags)
    /\ params = NoParams

NextNL ==
    \/ \E v \in RequestValues : CreateBegin("c1", StringBody(v))
    \/ CreateInsert("c1")
    \/ NaturalLanguageFilter("c1")

SpecNL == InitNL /\ [][NextNL]_vars

-----------------------------------------------------------------------------
(* Properties *)

RecordsOf(db, v) == {i \in 1..Len(db) : db[i].value = v}

Without(db, i) == SubSeq(db, 1, i - 1) \o SubSeq(db, i + 1, Len(db))

C2_RaceObservesConflict ==
    [][\A c \in Clients :
         (/\ pc[c] = "insert"
          /\ pending[c].value \in StoredValues(store)
          /\ CreateInsert(c)) =>
               /\ Cardinality(RecordsOf(store', pending[c].value)) = 1
               /\ resp'[c].status = 409
      ]_vars

\* C3: DELETE of a value that is not stored answers 404 and leaves the table
\* as it was; DELETE of a stored value answers 204 and removes exactly its
\* record; a GET of a value that is not stored answers 404; and a value that
\* is not stored becomes stored only by a create of it that answers 201.
C3_DeleteThenNotFound ==
    [][\A c \in Clients, v \in RacedValues :
         /\ DeleteString(c, v) =>
               IF v \in StoredValues(store)
               THEN /\ resp'[c].status = 204
                    /\ \E i \in RecordsOf(store, v) : store' = Without(store, i)
                    /\ v \notin StoredValues(store')
               ELSE /\ resp'[c].status = 404
                    /\ store' = store
         /\ (GetString(c, v) /\ v \notin StoredValues(store)) =>
               resp'[c].status = 404
         /\ (v \notin StoredValues(store) /\ v \in StoredValues(store')) =>
               \E d \in Clients :
                   /\ pc[d] = "insert" /\ pc'[d] = "idle"
                   /\ resp'[d].op = "create" /\ resp'[d].status = 201
                   /\ resp'[d].arg = StringBody(v)
      ]_vars

C3_Witness ==
    /\ resp["c1"].op = "delete" /\ resp["c1"].status = 204
    /\ resp["c2"].op = "get" /\ resp["c2"].status = 404
    /\ resp["c2"].arg = resp["c1"].arg
    /\ resp["c1"].arg \notin StoredValues(store)
    /\ Len(store) = 1

\* C4: in every reachable state no two stored records share a value or an
\* id, and every stored record's id and sha256_hash are SHA256 of its value.
C4_UniqueContentAddressed ==
    /\ \A i, j \in 1..Len(store) :
          i # j => store[i].value # store[j].value /\ store[i].id # store[j].id
    /\ \A i \in 1..Len(store) :
          /\ store[i].id = Sha256Hex(store[i].value)
          /\ store[i].data.sha256_hash = store[i].id

C4_Witness ==
    /\ Len(store) = 2
    /\ \E c \in Clients : resp[c].op = "create" /\ resp[c].status = 500

\* C5: GET /strings with contains_character = t returns exactly the records
\* that pass the other parameters and whose value holds t case-insensitively
\* (lower(t) occurs in lower(value)).
C5_ContainsCaseInsensitive ==
    LET r == resp["c1"]
    IN  (r.op = "list" /\ Truthy(r.arg.contains_character)) =>
            LET others == [r.arg EXCEPT !.contains_character = Absent]
                t == r.arg.contains_character.val
            IN  r.body.data =
                    SelectSeq(Objects(r.rows.val),
                              LAMBDA d : Kept(d, others) /\ Contains(Lower(t), Lower(d.value)))

\* the parameter texts of the model that int() accepts: "2", " 3", "-1", "1"
IntegerTexts == {<<"2">>, <<" ", "3">>, <<"-", "1">>, <<"1">>}

NonInteger(a) == a.has /\ a.val \notin IntegerTexts

NumericKeys == {"min_length", "max_length", "word_count"}

\* C6: GET /strings with a non-integer text for min_length, max_length or
\* word_count answers 200 with the data the same request without that
\* parameter gets from the same rows.
C6_MalformedNumberIsAbsent ==
    LET r == resp["c1"]
    IN  r.op = "list" =>
            \A k \in NumericKeys :
                NonInteger(r.arg[k]) =>
                    /\ r.status = 200
                    /\ r.body.data =
                          get_all_strings(r.rows.val, [r.arg EXCEPT ![k] = Absent]).body.data

C6_Witness ==
    LET r == resp["c1"]
    IN  /\ r.op = "list"
        /\ r.arg.max_length = Some(<<"2", "x">>)
        /\ r.arg.min_length = Some(<<"2">>)
        /\ Len(r.rows.val) = 3
        /\ Len(r.body.data) = 2

\* C7: a natural-language request whose query yields min_length > max_length
\* answers 422 with both parsed filters in the payload, returns no records
\* and runs no statement on the table; any other query never answers 422;
\* the request leaves the table as it was.
C7_ConflictingRange ==
    [][NaturalLanguageFilter("c1") =>
         LET r == resp'["c1"]
             f == ParseFilters(Strip(Lower(query)))
         IN  /\ store' = store
             /\ IF f.min_length.has /\ f.max_length.has
                      /\ f.min_length.val > f.max_length.val
                THEN /\ r.status = 422
                     /\ r.body.parsed_filters.min_length = f.min_length
                     /\ r.body.parsed_filters.max_length = f.max_length
                     /\ "data" \notin DOMAIN r.body
                     /\ r.rows = Absent
                ELSE r.status # 422
      ]_vars

C7_Witness ==
    /\ resp["c1"].op = "nl"
    /\ resp["c1"].status = 422
    /\ resp["c1"].body.parsed_filters.min_length = Some(3)
    /\ resp["c1"].body.parsed_filters.max_length = Some(2)
    /\ Len(store) = 3

\* what a record must satisfy under derived filters f
Satisfies(d, f) ==
    /\ f.is_palindrome.has => d.properties.is_palindrome
    /\ f.word_count.has => d.properties.word_count = f.word_count.val
    /\ f.min_length.has => d.properties.length >= f.min_length.val
    /\ f.max_length.has => d.properties.length <= f.max_length.val
    /\ f.contains_character.has =>
          Contains(Lower(f.contains_character.val), Lower(d.value))

MatchesNoPattern(q) ==
    /\ ~Contains(T_palindromic, q) /\ ~Contains(T_palindrome, q)
    /\ ~Contains(T_single_word, q)
    /\ ~SearchNumber(T_longer_than, q).has
    /\ ~SearchNumber(T_shorter_than, q).has
    /\ ~SearchWordChar(T_containing, q).has

\* C8: in the natural-language path "longer than N" yields min_length = N + 1
\* and "shorter than N" yields max_length = N - 1; a 200 returns exactly the
\* stored records, in table order, that satisfy every derived filter, so each
\* has length > N (length < N); a query matching no pattern answers 400
\* without data.
C8_LongerShorter ==
    [][NaturalLanguageFilter("c1") =>
         LET r == resp'["c1"]
             q == Strip(Lower(query))
             longer == SearchNumber(T_longer_than, q)
             shorter == SearchNumber(T_shorter_than, q)
         IN  /\ r.status = 200 =>
                  LET f == r.body.interpreted_query.parsed_filters
                      data == r.body.data
                  IN  /\ longer.has => f.min_length = Some(longer.val + 1)
                      /\ shorter.has => f.max_length = Some(shorter.val - 1)
                      /\ data = SelectSeq(Objects(store), LAMBDA d : Satisfies(d, f))
                      /\ \A i \in 1..Len(data) :
                            /\ longer.has => data[i].properties.length > longer.val
                            /\ shorter.has => data[i].properties.length < shorter.val
             /\ r.status = 422 =>
                  /\ r.body.parsed_filters.min_length = Some(longer.val + 1)
                  /\ r.body.parsed_filters.max_length = Some(shorter.val - 1)
             /\ MatchesNoPattern(q) <=> r.status = 400
             /\ r.status = 400 => "data" \notin DOMAIN r.body
      ]_vars

C8_Witness ==
    LET r == resp["c1"]
    IN  /\ r.op = "nl" /\ r.status = 200
        /\ r.body.interpreted_query.parsed_filters.min_length = Some(2)
        /\ r.body.interpreted_query.parsed_filters.max_length = Some(2)
        /\ Len(r.rows.val) = 3
        /\ Len(r.body.data) = 1

\* lower-case first, then keep the ASCII letters and digits
RECURSIVE LowerThenKeep(_)
LowerThenKeep(s) ==
    IF s = <<>> THEN <<>>
    ELSE SelectSeq(LowerChar(Head(s)), IsAsciiAlnum) \o LowerThenKeep(Tail(s))

\* keep the ASCII letters and digits first, then lower-case
RECURSIVE KeepThenLower(_)
KeepThenLower(s) ==
    IF s = <<>> THEN <<>>
    ELSE (IF IsAsciiAlnum(Head(s)) THEN LowerChar(Head(s)) ELSE <<>>) \o KeepThenLower(Tail(s))

ReadsSameBackwards(s) == \A i \in 1..Len(s) : s[i] = s[Len(s) + 1 - i]

\* C9 as stated: both analyzers give is_palindrome exactly when the input,
\* stripped of every character that is no ASCII letter or digit and then
\* lower-cased, equals its reverse.
C9_StripThenLower ==
    result.kind # "none" =>
        (result.record.properties.is_palindrome <=> ReadsSameBackwards(KeepThenLower(input)))

\* C9 amended: both analyzers give is_palindrome exactly when the input,
\* lower-cased and then stripped of every character that is no ASCII letter
\* or digit, equals its reverse (the empty string included).
C9_LowerThenStrip ==
    result.kind # "none" =>
        (result.record.properties.is_palindrome <=> ReadsSameBackwards(LowerThenKeep(input)))

C9_Witness ==
    /\ result.kind = "utils"
    /\ input = <<"KELVIN", "a", "k">>
    /\ result.record.properties.is_palindrome

\* the diagnostics a storage exception of the model can carry
StorageDiagnostics ==
    {"UNIQUE constraint failed: strings.id", "UNIQUE constraint failed: strings.value"}

\* C10: a 500 response is the same whichever diagnostic the exception
\* carried: it equals the response the handler gives for any other one.
C10_GenericInternalError ==
    \A c \in Clients :
        resp[c].status = 500 =>
            \A e \in StorageDiagnostics : resp[c] = Failure(resp[c].op, resp[c].arg, e)

====
